---- MODULE Spec2Model ----
(***************************************************************************)
(* A model of azure_blobrepo_rpm/tooling/create_resources.py: main() as a  *)
(* straight-line pipeline of collaborator calls, one action per statement  *)
(* group, with the Azure-side state (resource groups, deployments) kept    *)
(* across runs of the command.                                             *)
(***************************************************************************)
EXTENDS Integers, Sequences, FiniteSets, TLC

(***************************************************************************)
(* Bounds of the model and constants of the program.                       *)
(***************************************************************************)

\* Longest --suffix the model supplies (the limit of the program is 14).
MaxSuffixLen == 16

\* Polls of the trigger after which wait_for_event_trigger gives up.
MaxPolls == 3

\* Number of times the operator runs the command with the same command line.
MaxRuns == 2

\* "Suffix must be 14 characters or fewer."
SuffixLimit == 14

(***************************************************************************)
(* State.                                                                  *)
(***************************************************************************)
VARIABLES
    argv,                  \* the command line of the run
    run,                   \* which run of the command this is (1..MaxRuns)
    pc,                    \* the statement main() is at
    err,                   \* the exception main() ended with ("" for none)
    args,                  \* parser.parse_args()
    common_parameters,
    initial_parameters,
    deployment_name,
    initial_resources,
    outputs,
    base_url,
    function_app_name,
    package_container,
    python_container,
    storage_account,
    funcapp_parameters,
    funcapp,
    exc,                   \* the exception raised in the body of the with block
    acquired,              \* calls of funcapp.__enter__ that returned, this run
    released,              \* calls of funcapp.__exit__, this run
    polls,                 \* polls made by the wait_for_event_trigger in progress
    event_grid_deployment,
    log,                   \* the collaborator calls of this run, with results
    advice,                \* the advisories printed in this run
    resource_groups,       \* Azure: the resource groups that exist
    deployments,           \* Azure: the deployments the service holds
    submitted              \* Azure: every deployment request received

(***************************************************************************)
(* Values.                                                                 *)
(***************************************************************************)

\* Python's None, and a value that is present.
None == [some |-> FALSE, v |-> ""]
Some(x) == [some |-> TRUE, v |-> x]

\* A local name of main() that no statement has bound yet.
Unbound == "<unbound>"

\* The empty dict {}.
EmptyDict == [k \in {} |-> ""]

RECURSIVE Rep(_, _)
Rep(c, n) == IF n = 0 THEN "" ELSE c \o Rep(c, n - 1)

\* The command lines the model runs: every option is absent or given.
ResourceGroups == {"repo1", "repo2"}
Locations == {None, Some("westus")}
Suffixes == {None} \cup {Some(Rep("a", n)) : n \in 0..MaxSuffixLen}
UploadDirectories == {None, Some("incoming")}
RepoTypes == {None, Some("flat"), Some("distribution"), Some("rolling")}

Argvs ==
    [resource_group : ResourceGroups,
     location : Locations,
     suffix : Suffixes,
     upload_directory : UploadDirectories,
     repo_type : RepoTypes]

\* add_argument(..., default=d): the given value, or the default.
OrDefault(opt, d) == IF opt.some THEN opt.v ELSE d

\* add_argument("--repo-type", choices=["flat", "distribution"], ...)
RepoTypeChoices == {"flat", "distribution"}

\* parser.parse_args(): the Namespace. --suffix has no default and stays None.
ParsedArgs(a) ==
    [resource_group |-> a.resource_group,
     location |-> OrDefault(a.location, "eastus"),
     suffix |-> a.suffix,
     upload_directory |-> OrDefault(a.upload_directory, "upload"),
     repo_type |-> OrDefault(a.repo_type, "distribution")]

\* Mutant: the option is declared without choices.
ChoiceAccepted_any(a) == TRUE

\* argparse rejects a --repo-type outside the choices (it exits with status 2).
ChoiceAccepted(a) == a.repo_type.some => a.repo_type.v \in RepoTypeChoices

\* Truth value of args.suffix: None and "" are false.
Truthy(s) == s.some /\ Len(s.v) > 0

\* Mutant: the comparison is off by one.
SuffixTooLong_off_by_one(s) == Truthy(s) /\ Len(s.v) > SuffixLimit + 1

\* if args.suffix and len(args.suffix) > 14
SuffixTooLong(s) == Truthy(s) /\ Len(s.v) > SuffixLimit

\* dict.update: the keys of e override those of d.
Update(d, e) ==
    [k \in DOMAIN d \cup DOMAIN e |-> IF k \in DOMAIN e THEN e[k] ELSE d[k]]

\* Mutant: with no suffix given, main() makes one up.
CommonParameters_generates(a) ==
    Update(EmptyDict, [suffix |-> IF Truthy(a.suffix) THEN a.suffix.v ELSE "generated"])

\* common_parameters = {}; if args.suffix: common_parameters["suffix"] = args.suffix
CommonParameters(a) ==
    IF Truthy(a.suffix) THEN Update(EmptyDict, [suffix |-> a.suffix.v]) ELSE EmptyDict

\* initial_parameters = {...}; initial_parameters.update(common_parameters)
InitialParameters(a, common) ==
    Update([use_shared_keys |-> FALSE,
            repo_type |-> a.repo_type,
            upload_directory |-> a.upload_directory], common)

\* Mutant: the update with the common parameters is left out.
FuncappParameters_no_update(a, common) ==
    [repo_type |-> a.repo_type, upload_directory |-> a.upload_directory]

\* funcapp_parameters = {...}; funcapp_parameters.update(common_parameters)
FuncappParameters(a, common) ==
    Update([repo_type |-> a.repo_type,
            upload_directory |-> a.upload_directory], common)

\* Mutant: the suffix, when given, becomes part of the deployment name.
DeploymentName_with_suffix(a) ==
    IF a.suffix.some THEN a.resource_group \o "_" \o a.suffix.v ELSE a.resource_group

\* deployment_name = args.resource_group
DeploymentName(a) == a.resource_group

\* Mutant: the name of the event-routing deployment is made unique per run.
EventGridDeploymentName_per_run(name) == name \o "_eg" \o ToString(run)

\* f"{deployment_name}_eg"
EventGridDeploymentName(name) == name \o "_eg"

(***************************************************************************)
(* The collaborators main() calls. Their code is in other modules of the   *)
(* package; each call is modelled by the results its contract allows.      *)
(***************************************************************************)

\* The keys main() reads from the initial deployment's outputs, in order.
OutputKeys ==
    <<"base_url", "function_app_name", "package_container",
      "python_container", "storage_account">>

OutputKeySet == {OutputKeys[i] : i \in 1..Len(OutputKeys)}

\* Two deployments that differ in every value they report.
OutputTags == {"A", "B"}

\* initial_resources.outputs(): a mapping holding some of the declared outputs.
OutputsResults == {[k \in ks |-> t \o ":" \o k] : ks \in SUBSET OutputKeySet, t \in OutputTags}

CreateRgResults == {"ok", "ContainerCreationError"}
ExtractRequirementsResults == {"ok", "ManifestError"}
BicepCreateResults == {"ok", "DeploymentFailedError"}
EnterResults == {"ok", "BundleDeployError"}
DeployResults == {"ok", "BundleDeployError", "KeyboardInterrupt"}
WaitResults == {"ok", "TriggerTimeoutError", "TriggerNotFoundError", "KeyboardInterrupt"}

\* FuncAppBundle.__exit__ returns a false value: it does not swallow the exception.
ExitSuppresses == FALSE

\* The deployment service creates or updates the deployment of that name.
Submit(deps, d) ==
    {e \in deps : ~(e.name = d.name /\ e.resource_group = d.resource_group)} \cup {d}

\* BicepDeployment.create() leaves the deployment Succeeded or Failed.
ProvisioningState(result) == IF result = "ok" THEN "Succeeded" ELSE "Failed"

(***************************************************************************)
(* Tuples of variables, and the state main() starts in.                     *)
(***************************************************************************)
locals ==
    <<args, common_parameters, initial_parameters, deployment_name,
      initial_resources, outputs, base_url, function_app_name,
      package_container, python_container, storage_account,
      funcapp_parameters, funcapp, exc, event_grid_deployment>>

session == <<acquired, released, polls>>

azure == <<resource_groups, deployments, submitted>>

vars == <<argv, run, pc, err, locals, session, log, advice, azure>>

FreshLocals ==
    /\ args = None
    /\ common_parameters = None
    /\ initial_parameters = None
    /\ deployment_name = Unbound
    /\ initial_resources = None
    /\ outputs = None
    /\ base_url = Unbound
    /\ function_app_name = Unbound
    /\ package_container = Unbound
    /\ python_container = Unbound
    /\ storage_account = Unbound
    /\ funcapp_parameters = None
    /\ funcapp = None
    /\ exc = ""
    /\ event_grid_deployment = None

Init ==
    /\ argv \in Argvs
    /\ run = 1
    /\ pc = "parse_args"
    /\ err = ""
    /\ FreshLocals
    /\ acquired = 0
    /\ released = 0
    /\ polls = 0
    /\ log = <<>>
    /\ advice = <<>>
    /\ resource_groups = {}
    /\ deployments = {}
    /\ submitted = {}

\* An exception leaves main(): the run ends with it.
Raise(e) == pc' = "raised" /\ err' = e

\* A collaborator call returned or raised.
Called(op, result) == log' = Append(log, [op |-> op, result |-> result])

(***************************************************************************)
(* main(), statement by statement.                                         *)
(***************************************************************************)

\* args = parser.parse_args(): argparse exits on a --repo-type outside the choices.
ParseArgs ==
    /\ pc = "parse_args"
    /\ IF ChoiceAccepted(argv)
       THEN /\ args' = ParsedArgs(argv)
            /\ pc' = "check_suffix"
            /\ err' = err
       ELSE /\ Raise("SystemExit")
            /\ args' = args
    /\ UNCHANGED <<argv, run, common_parameters, initial_parameters,
                   deployment_name, initial_resources, outputs, base_url,
                   function_app_name, package_container, python_container,
                   storage_account, funcapp_parameters, funcapp, exc,
                   event_grid_deployment, session, log, advice, azure>>

\* if args.suffix and len(args.suffix) > 14: raise ValueError(...)
CheckSuffix ==
    /\ pc = "check_suffix"
    /\ IF SuffixTooLong(args.suffix)
       THEN Raise("ValueError")
       ELSE pc' = "create_rg" /\ err' = err
    /\ UNCHANGED <<argv, run, locals, session, log, advice, azure>>

\* create_rg(args.resource_group, args.location)
CreateRg ==
    /\ pc = "create_rg"
    /\ \E result \in CreateRgResults :
        /\ Called("create_rg", result)
        /\ IF result = "ok"
           THEN /\ resource_groups' = resource_groups \cup
                        {[name |-> args.resource_group, location |-> args.location]}
                /\ pc' = "extract_requirements"
                /\ err' = err
           ELSE /\ resource_groups' = resource_groups
                /\ Raise(result)
    /\ UNCHANGED <<argv, run, locals, session, advice, deployments, submitted>>

\* Mutant: a failure of extract_requirements is caught and main() goes on.
ExtractRequirements_continues ==
    /\ pc = "extract_requirements"
    /\ \E result \in ExtractRequirementsResults :
        /\ Called("extract_requirements", result)
        /\ pc' = "parameters"
        /\ err' = err
    /\ UNCHANGED <<argv, run, locals, session, advice, azure>>

\* extract_requirements(Path("requirements.txt"))
ExtractRequirements ==
    /\ pc = "extract_requirements"
    /\ \E result \in ExtractRequirementsResults :
        /\ Called("extract_requirements", result)
        /\ IF result = "ok"
           THEN pc' = "parameters" /\ err' = err
           ELSE Raise(result)
    /\ UNCHANGED <<argv, run, locals, session, advice, azure>>

\* The BicepDeployment of rg.bicep, as constructed.
InitialResources(a, name, parameters) ==
    [deployment_name |-> name,
     resource_group_name |-> a.resource_group,
     template_file |-> "rg.bicep",
     parameters |-> parameters,
     description |-> "initial resources"]

\* Mutant: the merge runs the wrong way, common_parameters.update(initial_parameters).
BuildParameters_merges_into_common ==
    /\ pc = "parameters"
    /\ initial_parameters' = InitialParameters(args, EmptyDict)
    /\ common_parameters' = Update(CommonParameters(args), initial_parameters')
    /\ deployment_name' = DeploymentName(args)
    /\ initial_resources' =
           InitialResources(args, deployment_name', initial_parameters')
    /\ pc' = "initial_create"
    /\ UNCHANGED <<argv, run, err, args, outputs, base_url, function_app_name,
                   package_container, python_container, storage_account,
                   funcapp_parameters, funcapp, exc, event_grid_deployment,
                   session, log, advice, azure>>

\* common_parameters, initial_parameters, deployment_name, initial_resources
BuildParameters ==
    /\ pc = "parameters"
    /\ common_parameters' = CommonParameters(args)
    /\ initial_parameters' = InitialParameters(args, common_parameters')
    /\ deployment_name' = DeploymentName(args)
    /\ initial_resources' =
           InitialResources(args, deployment_name', initial_parameters')
    /\ pc' = "initial_create"
    /\ UNCHANGED <<argv, run, err, args, outputs, base_url, function_app_name,
                   package_container, python_container, storage_account,
                   funcapp_parameters, funcapp, exc, event_grid_deployment,
                   session, log, advice, azure>>

\* What the deployment service holds for a BicepDeployment after create().
Deployment(d, result) ==
    [name |-> d.deployment_name,
     resource_group |-> d.resource_group_name,
     template |-> d.template_file,
     parameters |-> d.parameters,
     state |-> ProvisioningState(result),
     run |-> run]

\* The request the deployment service received.
Request(d) == [run |-> run, template |-> d.template_file, name |-> d.deployment_name]

\* Mutant: a failed create() is logged and main() goes on to read the outputs.
InitialCreate_ignores_failure ==
    /\ pc = "initial_create"
    /\ \E result \in BicepCreateResults :
        /\ Called("initial_create", result)
        /\ deployments' = Submit(deployments, Deployment(initial_resources, result))
        /\ submitted' = submitted \cup {Request(initial_resources)}
        /\ pc' = "outputs"
        /\ err' = err
    /\ UNCHANGED <<argv, run, locals, session, advice, resource_groups>>

\* initial_resources.create()
InitialCreate ==
    /\ pc = "initial_create"
    /\ \E result \in BicepCreateResults :
        /\ Called("initial_create", result)
        /\ deployments' = Submit(deployments, Deployment(initial_resources, result))
        /\ submitted' = submitted \cup {Request(initial_resources)}
        /\ IF result = "ok"
           THEN pc' = "outputs" /\ err' = err
           ELSE Raise(result)
    /\ UNCHANGED <<argv, run, locals, session, advice, resource_groups>>

\* The result of a subscript that raised KeyError.
KeyError == "<KeyError>"

\* Mutant: outputs.get(k, "") in place of outputs[k].
Subscript_get(o, k) == IF k \in DOMAIN o THEN o[k] ELSE ""

\* outputs[k]
Subscript(o, k) == IF k \in DOMAIN o THEN o[k] ELSE KeyError

\* The first of the lookups of main() that raises (0 when none does).
FirstMissing(o) ==
    IF \A i \in 1..Len(OutputKeys) : Subscript(o, OutputKeys[i]) # KeyError
    THEN 0
    ELSE CHOOSE i \in 1..Len(OutputKeys) :
             /\ Subscript(o, OutputKeys[i]) = KeyError
             /\ \A j \in 1..(i - 1) : Subscript(o, OutputKeys[j]) # KeyError

\* x = outputs["..."], when the lookups before it did not raise KeyError.
Lookup(o, i) ==
    IF FirstMissing(o) = 0 \/ i < FirstMissing(o)
    THEN Subscript(o, OutputKeys[i])
    ELSE Unbound

\* outputs = initial_resources.outputs() and the five lookups
ReadOutputs ==
    /\ pc = "outputs"
    /\ \E o \in OutputsResults :
        /\ Called("outputs", "ok")
        /\ outputs' = o
        /\ base_url' = Lookup(o, 1)
        /\ function_app_name' = Lookup(o, 2)
        /\ package_container' = Lookup(o, 3)
        /\ python_container' = Lookup(o, 4)
        /\ storage_account' = Lookup(o, 5)
        /\ IF FirstMissing(o) = 0
           THEN pc' = "funcapp" /\ err' = err
           ELSE Raise("KeyError")
    /\ UNCHANGED <<argv, run, args, common_parameters, initial_parameters,
                   deployment_name, initial_resources, funcapp_parameters,
                   funcapp, exc, event_grid_deployment, session, advice, azure>>

\* Mutant: the storage account and the container are passed in each other's place.
FuncAppBundle_swapped(a, name, storage, container, parameters) ==
    [name |-> name,
     resource_group |-> a.resource_group,
     storage_account |-> container,
     python_container |-> storage,
     parameters |-> parameters]

\* The FuncAppBundle, as constructed.
FuncAppBundle(a, name, storage, container, parameters) ==
    [name |-> name,
     resource_group |-> a.resource_group,
     storage_account |-> storage,
     python_container |-> container,
     parameters |-> parameters]

\* funcapp_parameters and funcapp = FuncAppBundle(...)
BuildFuncApp ==
    /\ pc = "funcapp"
    /\ funcapp_parameters' = FuncappParameters(args, common_parameters)
    /\ funcapp' = FuncAppBundle(args, function_app_name, storage_account,
                                python_container, funcapp_parameters')
    /\ pc' = "enter"
    /\ UNCHANGED <<argv, run, err, args, common_parameters, initial_parameters,
                   deployment_name, initial_resources, outputs, base_url,
                   function_app_name, package_container, python_container,
                   storage_account, exc, event_grid_deployment,
                   session, log, advice, azure>>

\* Mutant: __enter__ is called inside try/finally, so its failure is followed by __exit__.
WithEnter_releases_on_failure ==
    /\ pc = "enter"
    /\ \E result \in EnterResults :
        /\ Called("enter", result)
        /\ IF result = "ok"
           THEN /\ acquired' = acquired + 1
                /\ pc' = "deploy"
                /\ exc' = exc
           ELSE /\ acquired' = acquired
                /\ pc' = "exit"
                /\ exc' = result
    /\ UNCHANGED <<argv, run, err, args, common_parameters, initial_parameters,
                   deployment_name, initial_resources, outputs, base_url,
                   function_app_name, package_container, python_container,
                   storage_account, funcapp_parameters, funcapp,
                   event_grid_deployment, released, polls, advice, azure>>

\* with funcapp as cm: funcapp.__enter__()
WithEnter ==
    /\ pc = "enter"
    /\ \E result \in EnterResults :
        /\ Called("enter", result)
        /\ IF result = "ok"
           THEN /\ acquired' = acquired + 1
                /\ pc' = "deploy"
                /\ err' = err
           ELSE /\ acquired' = acquired
                /\ Raise(result)
    /\ UNCHANGED <<argv, run, locals, released, polls, advice, azure>>

\* Mutant: the body of the with block is deploy() alone; the wait is left out.
Deploy_skips_wait ==
    /\ pc = "deploy"
    /\ \E result \in DeployResults :
        /\ Called("deploy", result)
        /\ pc' = "exit"
        /\ exc' = IF result = "ok" THEN exc ELSE result
    /\ UNCHANGED <<argv, run, err, args, common_parameters, initial_parameters,
                   deployment_name, initial_resources, outputs, base_url,
                   function_app_name, package_container, python_container,
                   storage_account, funcapp_parameters, funcapp,
                   event_grid_deployment, session, advice, azure>>

\* cm.deploy(): an exception leaves the body through __exit__
Deploy ==
    /\ pc = "deploy"
    /\ \E result \in DeployResults :
        /\ Called("deploy", result)
        /\ IF result = "ok"
           THEN pc' = "wait" /\ exc' = exc
           ELSE pc' = "exit" /\ exc' = result
    /\ UNCHANGED <<argv, run, err, args, common_parameters, initial_parameters,
                   deployment_name, initial_resources, outputs, base_url,
                   function_app_name, package_container, python_container,
                   storage_account, funcapp_parameters, funcapp,
                   event_grid_deployment, session, advice, azure>>

\* What one poll of the function app can observe.
PollResults == {"pending", "ok", "TriggerNotFoundError", "KeyboardInterrupt"}

\* The result of the wait after a poll, the n polls before it having seen no
\* trigger yet ("pending": it sleeps and polls again).
WaitResult(observed, n) ==
    IF observed # "pending" THEN observed
    ELSE IF n + 1 >= MaxPolls THEN "TriggerTimeoutError"
    ELSE "pending"

\* Mutant: the wait has no timeout and polls until the trigger shows (the
\* count of polls wraps around, which keeps it finite).
WaitForEventTrigger_never_times_out ==
    /\ pc = "wait"
    /\ \E observed \in PollResults :
        IF observed = "pending"
        THEN /\ polls' = (polls + 1) % MaxPolls
             /\ UNCHANGED <<pc, exc, log>>
        ELSE /\ Called("wait_for_event_trigger", observed)
             /\ pc' = "exit"
             /\ exc' = IF observed = "ok" THEN exc ELSE observed
             /\ polls' = polls
    /\ UNCHANGED <<argv, run, err, args, common_parameters, initial_parameters,
                   deployment_name, initial_resources, outputs, base_url,
                   function_app_name, package_container, python_container,
                   storage_account, funcapp_parameters, funcapp,
                   event_grid_deployment, acquired, released, advice, azure>>

\* cm.wait_for_event_trigger(): one poll; the call returns, raises or polls again
WaitForEventTrigger ==
    /\ pc = "wait"
    /\ \E observed \in PollResults :
        LET result == WaitResult(observed, polls) IN
        IF result = "pending"
        THEN /\ polls' = polls + 1
             /\ UNCHANGED <<pc, exc, log>>
        ELSE /\ result \in WaitResults
             /\ Called("wait_for_event_trigger", result)
             /\ pc' = "exit"
             /\ exc' = IF result = "ok" THEN exc ELSE result
             /\ polls' = polls
    /\ UNCHANGED <<argv, run, err, args, common_parameters, initial_parameters,
                   deployment_name, initial_resources, outputs, base_url,
                   function_app_name, package_container, python_container,
                   storage_account, funcapp_parameters, funcapp,
                   event_grid_deployment, acquired, released, advice, azure>>

\* Mutant: the exception of the body is swallowed (try: ... except: pass).
AfterWith_swallows(e) == "event_grid"

\* Where control goes when the with block is left with exception e ("" for none).
AfterWith(e) == IF e = "" \/ ExitSuppresses THEN "event_grid" ELSE "raised"

\* Mutant: no with block; the release follows the body and an exception skips it.
WithExit_not_on_exception ==
    /\ pc = "exit"
    /\ IF exc = ""
       THEN /\ Called("exit", "ok")
            /\ released' = released + 1
       ELSE UNCHANGED <<log, released>>
    /\ pc' = AfterWith(exc)
    /\ err' = IF AfterWith(exc) = "raised" THEN exc ELSE err
    /\ UNCHANGED <<argv, run, locals, acquired, polls, advice, azure>>

\* Mutant: try/except Exception in place of with; KeyboardInterrupt skips the release.
WithExit_except_Exception ==
    /\ pc = "exit"
    /\ IF exc # "KeyboardInterrupt"
       THEN /\ Called("exit", "ok")
            /\ released' = released + 1
       ELSE UNCHANGED <<log, released>>
    /\ pc' = AfterWith(exc)
    /\ err' = IF AfterWith(exc) = "raised" THEN exc ELSE err
    /\ UNCHANGED <<argv, run, locals, acquired, polls, advice, azure>>

\* The end of the with block: funcapp.__exit__(...), then the exception, if any
WithExit ==
    /\ pc = "exit"
    /\ Called("exit", "ok")
    /\ released' = released + 1
    /\ pc' = AfterWith(exc)
    /\ err' = IF AfterWith(exc) = "raised" THEN exc ELSE err
    /\ UNCHANGED <<argv, run, locals, acquired, polls, advice, azure>>

\* The BicepDeployment of rg_add_eventgrid.bicep, as constructed.
EventGridDeployment(a, name, parameters) ==
    [deployment_name |-> EventGridDeploymentName(name),
     resource_group_name |-> a.resource_group,
     template_file |-> "rg_add_eventgrid.bicep",
     parameters |-> parameters,
     description |-> "Event Grid trigger configuration"]

\* event_grid_deployment = BicepDeployment(...); event_grid_deployment.create()
EventGridCreate ==
    /\ pc = "event_grid"
    /\ event_grid_deployment' =
           EventGridDeployment(args, deployment_name, common_parameters)
    /\ \E result \in BicepCreateResults :
        /\ Called("event_grid_create", result)
        /\ deployments' = Submit(deployments, Deployment(event_grid_deployment', result))
        /\ submitted' = submitted \cup {Request(event_grid_deployment')}
        /\ IF result = "ok"
           THEN pc' = "advice" /\ err' = err
           ELSE Raise(result)
    /\ UNCHANGED <<argv, run, args, common_parameters, initial_parameters,
                   deployment_name, initial_resources, outputs, base_url,
                   function_app_name, package_container, python_container,
                   storage_account, funcapp_parameters, funcapp, exc,
                   session, advice, resource_groups>>

\* Mutant: the two branches call each other's advisory.
AdviceFor_swapped(repo_type) ==
    IF repo_type = "distribution" THEN "advice_flat_repo"
    ELSE IF repo_type = "flat" THEN "advice_distribution_repo"
    ELSE ""

\* The advisory function the if/elif chain selects ("" for the else branch).
AdviceFor(repo_type) ==
    IF repo_type = "distribution" THEN "advice_distribution_repo"
    ELSE IF repo_type = "flat" THEN "advice_flat_repo"
    ELSE ""

\* if args.repo_type == "distribution": ... elif ... "flat": ... else: raise ValueError
Advise ==
    /\ pc = "advice"
    /\ IF AdviceFor(args.repo_type) # ""
       THEN /\ advice' = Append(advice,
                    [function |-> AdviceFor(args.repo_type),
                     arguments |-> <<args.upload_directory, package_container,
                                     storage_account, function_app_name, base_url>>])
            /\ Called(AdviceFor(args.repo_type), "ok")
            /\ pc' = "done"
            /\ err' = err
       ELSE /\ Raise("ValueError")
            /\ UNCHANGED <<advice, log>>
    /\ UNCHANGED <<argv, run, locals, session, azure>>

\* The operator runs the same command again; what Azure holds stays.
Rerun ==
    /\ pc \in {"done", "raised"}
    /\ run < MaxRuns
    /\ run' = run + 1
    /\ pc' = "parse_args"
    /\ err' = ""
    /\ args' = None
    /\ common_parameters' = None
    /\ initial_parameters' = None
    /\ deployment_name' = Unbound
    /\ initial_resources' = None
    /\ outputs' = None
    /\ base_url' = Unbound
    /\ function_app_name' = Unbound
    /\ package_container' = Unbound
    /\ python_container' = Unbound
    /\ storage_account' = Unbound
    /\ funcapp_parameters' = None
    /\ funcapp' = None
    /\ exc' = ""
    /\ event_grid_deployment' = None
    /\ acquired' = 0
    /\ released' = 0
    /\ polls' = 0
    /\ log' = <<>>
    /\ advice' = <<>>
    /\ UNCHANGED <<argv, azure>>

Next ==
    \/ ParseArgs
    \/ CheckSuffix
    \/ CreateRg
    \/ ExtractRequirements
    \/ BuildParameters
    \/ InitialCreate
    \/ ReadOutputs
    \/ BuildFuncApp
    \/ WithEnter
    \/ Deploy
    \/ WaitForEventTrigger
    \/ WithExit
    \/ EventGridCreate
    \/ Advise
    \/ Rerun

Spec == Init /\ [][Next]_vars

(***************************************************************************)
(* Reading the state.                                                      *)
(***************************************************************************)

\* main() minus the operator's decision to run the command again.
Step ==
    \/ ParseArgs \/ CheckSuffix \/ CreateRg \/ ExtractRequirements
    \/ BuildParameters \/ InitialCreate \/ ReadOutputs \/ BuildFuncApp
    \/ WithEnter \/ Deploy \/ WaitForEventTrigger \/ WithExit
    \/ EventGridCreate \/ Advise

\* main() keeps running: a statement that can execute does, and a collaborator
\* call that is in progress comes back (or polls again).
FairSpec == Spec /\ WF_vars(Step)

\* The stages of the pipeline, in order.
StageOrder ==
    <<"create_rg", "initial_create", "deploy", "wait_for_event_trigger",
      "event_grid_create", "advice">>

NumStages == Len(StageOrder)

\* The stage a logged operation belongs to: both advisory functions are "advice".
StageName(op) ==
    IF op \in {"advice_distribution_repo", "advice_flat_repo"} THEN "advice" ELSE op

\* The position of a collaborator operation in the pipeline (0: not a stage).
StageOf(op) ==
    IF \E i \in 1..NumStages : StageOrder[i] = StageName(op)
    THEN CHOOSE i \in 1..NumStages : StageOrder[i] = StageName(op)
    ELSE 0

IsStage(e) == StageOf(e.op) # 0

\* The stage operations of this run, in the order they were invoked.
StageCalls == SelectSeq(log, IsStage)

HasCall(op) == \E i \in 1..Len(log) : log[i].op = op

Returned(op) == \E i \in 1..Len(log) : log[i].op = op /\ log[i].result = "ok"

Failed(op) == \E i \in 1..Len(log) : log[i].op = op /\ log[i].result # "ok"

(***************************************************************************)
(* C1: in every run the stage operations are invoked in the order          *)
(* create_rg, initial create, bundle deploy, wait_for_event_trigger,       *)
(* event-grid create, advisory: the k-th stage call of a run is stage k    *)
(* (none skipped, reordered or repeated), every call before the last one   *)
(* has returned successfully, and a run that is done has made all six.     *)
(***************************************************************************)
C1_FixedOrder ==
    /\ \A i \in 1..Len(StageCalls) : StageOf(StageCalls[i].op) = i
    /\ \A i \in 1..(Len(StageCalls) - 1) : StageCalls[i].result = "ok"
    /\ pc = "done" => Len(StageCalls) = NumStages /\ \A i \in 1..NumStages : StageCalls[i].result = "ok"

C1_Witness ==
    /\ pc = "done"
    /\ Len(StageCalls) = NumStages
    /\ StageCalls[1].op = "create_rg"
    /\ StageCalls[NumStages].op = "advice_flat_repo"

(***************************************************************************)
(* C2: the event-routing deployment is constructed or submitted only after *)
(* wait_for_event_trigger has returned in the same run; when the bundle    *)
(* deploy or the trigger wait fails, neither the event-routing deployment  *)
(* nor the advisory is reached.                                            *)
(***************************************************************************)
C2_ReadinessBarrier ==
    /\ (\/ HasCall("event_grid_create")
        \/ event_grid_deployment # None
        \/ pc \in {"event_grid", "advice", "done"}
        \/ \E r \in submitted : r.run = run /\ r.template = "rg_add_eventgrid.bicep")
       => Returned("deploy") /\ Returned("wait_for_event_trigger")
    /\ (Failed("deploy") \/ Failed("wait_for_event_trigger"))
       => /\ ~HasCall("event_grid_create")
          /\ event_grid_deployment = None
          /\ advice = <<>>
          /\ pc \in {"exit", "raised"}

C2_Witness ==
    /\ HasCall("event_grid_create")
    /\ Returned("wait_for_event_trigger")
    /\ \E r \in submitted : r.run = run /\ r.template = "rg_add_eventgrid.bicep"

(***************************************************************************)
(* C3: once the bundle session is acquired it is released exactly once on  *)
(* every exit path of the with block: inside the body it is held and not   *)
(* yet released, and wherever control is after the block (the next         *)
(* statement, or main() left with the exception of deploy() or of          *)
(* wait_for_event_trigger()) it has been released once, never twice.       *)
(***************************************************************************)
C3_ReleasedExactlyOnce ==
    /\ acquired \in {0, 1}
    /\ released <= acquired
    /\ pc \in {"deploy", "wait", "exit"} => acquired = 1 /\ released = 0
    /\ (acquired = 1 /\ pc \notin {"deploy", "wait", "exit"}) => released = 1
    /\ (Failed("deploy") \/ Failed("wait_for_event_trigger")) /\ pc = "raised"
       => released = 1 /\ log[Len(log)].op = "exit"

C3_Witness ==
    /\ pc = "raised"
    /\ err = "TriggerTimeoutError"
    /\ acquired = 1
    /\ released = 1

(***************************************************************************)
(* C4: a failed stage halts the run with that stage's error: no operation  *)
(* is invoked twice in a run, after a failed call nothing is invoked but   *)
(* the release of an acquired bundle session, the run ends with the error  *)
(* of the failed call, and after a failed initial deployment the           *)
(* FuncAppBundle is neither constructed nor entered.                       *)
(***************************************************************************)
C4_HaltOnFailure ==
    /\ \A i, j \in 1..Len(log) : log[i].op = log[j].op => i = j
    /\ \A i \in 1..Len(log) :
         log[i].result # "ok" =>
            /\ \A j \in (i + 1)..Len(log) :
                 log[j].op = "exit" /\ log[i].op \in {"deploy", "wait_for_event_trigger"}
            /\ pc \in {"exit", "raised"}
            /\ pc = "raised" => err = log[i].result
    /\ Failed("initial_create") =>
         funcapp = None /\ acquired = 0 /\ ~HasCall("enter") /\ ~HasCall("outputs")

C4_Witness ==
    /\ pc = "raised"
    /\ err = "DeploymentFailedError"
    /\ Failed("initial_create")

(***************************************************************************)
(* C5: when the outputs of the successful initial deployment lack one of   *)
(* base_url, function_app_name, package_container, python_container,       *)
(* storage_account, main() ends with KeyError at the lookups: no bundle is *)
(* constructed or entered, nothing is deployed or waited for, no           *)
(* event-routing deployment and no advisory follow; and a run that gets    *)
(* past the lookups holds exactly the values the outputs reported.         *)
(***************************************************************************)
C5_MissingOutputHalts ==
    HasCall("outputs") =>
        IF \E k \in OutputKeySet : k \notin DOMAIN outputs
        THEN /\ pc = "raised"
             /\ err = "KeyError"
             /\ log[Len(log)].op = "outputs"
             /\ funcapp = None
             /\ acquired = 0
             /\ event_grid_deployment = None
             /\ advice = <<>>
             /\ \A r \in submitted :
                  r.run = run => r.template # "rg_add_eventgrid.bicep"
        ELSE /\ base_url = outputs["base_url"]
             /\ function_app_name = outputs["function_app_name"]
             /\ package_container = outputs["package_container"]
             /\ python_container = outputs["python_container"]
             /\ storage_account = outputs["storage_account"]

C5_Witness ==
    /\ HasCall("outputs")
    /\ "base_url" \notin DOMAIN outputs
    /\ "function_app_name" \in DOMAIN outputs
    /\ pc = "raised"
    /\ err = "KeyError"

(***************************************************************************)
(* C6: with a --suffix longer than 14 characters the run ends before any   *)
(* resource is touched: main() raises ValueError at the length check (or   *)
(* argparse has already rejected the command line), no collaborator is     *)
(* called, no descriptor is built and Azure holds nothing, however often   *)
(* the command is run.                                                     *)
(***************************************************************************)
C6_LongSuffixRejected ==
    (argv.suffix.some /\ Len(argv.suffix.v) > 14) =>
        /\ pc \in {"parse_args", "check_suffix", "raised"}
        /\ pc = "raised" =>
             err = IF ChoiceAccepted(argv) THEN "ValueError" ELSE "SystemExit"
        /\ log = <<>>
        /\ initial_resources = None
        /\ funcapp = None
        /\ event_grid_deployment = None
        /\ acquired = 0
        /\ resource_groups = {}
        /\ deployments = {}
        /\ submitted = {}

C6_Witness ==
    /\ argv.suffix.some
    /\ Len(argv.suffix.v) = 15
    /\ pc = "raised"
    /\ err = "ValueError"
    /\ run = 2

\* The parameter set p carries the key 'suffix' with value v.
SuffixIs(p, v) == "suffix" \in DOMAIN p /\ p["suffix"] = v

\* The parameter sets handed to the three stages, as far as they are built.
StageParameters ==
    (IF initial_resources # None THEN {initial_resources.parameters} ELSE {})
    \cup (IF funcapp # None THEN {funcapp.parameters} ELSE {})
    \cup (IF event_grid_deployment # None THEN {event_grid_deployment.parameters} ELSE {})

(***************************************************************************)
(* C7, as claimed: for every supplied suffix of length 0 to 14 the         *)
(* parameter 'suffix' handed to the initial deployment, to the bundle      *)
(* stage and to the event-routing deployment is the supplied string.       *)
(***************************************************************************)
C7_Original ==
    (argv.suffix.some /\ Len(argv.suffix.v) <= 14) =>
        \A p \in StageParameters : SuffixIs(p, argv.suffix.v)

(***************************************************************************)
(* C7, amended: for every supplied suffix of length 1 to 14 the parameter  *)
(* 'suffix' handed to the initial deployment, to the bundle stage and to   *)
(* the event-routing deployment is the supplied string, the same in all    *)
(* three; an empty suffix is treated as absent and no 'suffix' parameter   *)
(* is handed to any stage.                                                 *)
(***************************************************************************)
C7_SuffixUnchanged ==
    /\ (argv.suffix.some /\ Len(argv.suffix.v) \in 1..14) =>
          \A p \in StageParameters : SuffixIs(p, argv.suffix.v)
    /\ (argv.suffix.some /\ Len(argv.suffix.v) = 0) =>
          \A p \in StageParameters : "suffix" \notin DOMAIN p
    /\ pc = "done" =>
          /\ initial_resources # None
          /\ funcapp # None
          /\ event_grid_deployment # None

C7_Witness ==
    /\ pc = "done"
    /\ argv.suffix.some
    /\ Len(argv.suffix.v) = 14
    /\ SuffixIs(initial_resources.parameters, argv.suffix.v)
    /\ SuffixIs(funcapp.parameters, argv.suffix.v)
    /\ SuffixIs(event_grid_deployment.parameters, argv.suffix.v)

(***************************************************************************)
(* C8: with a --repo-type outside {flat, distribution} the run ends in     *)
(* argparse before any stage: no collaborator is called, Azure holds       *)
(* nothing and no session is acquired; so the advisory selection only ever *)
(* sees flat or distribution and the final else branch (ValueError after   *)
(* the event-routing deployment) is never taken.                           *)
(***************************************************************************)
C8_InvalidModeRejected ==
    /\ (argv.repo_type.some /\ argv.repo_type.v \notin {"flat", "distribution"}) =>
          /\ pc \in {"parse_args", "raised"}
          /\ pc = "raised" => err = "SystemExit"
          /\ args = None
          /\ log = <<>>
          /\ acquired = 0
          /\ resource_groups = {}
          /\ deployments = {}
          /\ submitted = {}
    /\ pc \in {"advice", "done"} => args.repo_type \in {"flat", "distribution"}
    /\ ~(pc = "raised" /\ err = "ValueError" /\ Returned("event_grid_create"))

C8_Witness ==
    /\ argv.repo_type = Some("rolling")
    /\ pc = "raised"
    /\ err = "SystemExit"
    /\ run = 2

(***************************************************************************)
(* C9: every request the deployment service receives for rg.bicep is named *)
(* by the resource group and every request for rg_add_eventgrid.bicep by   *)
(* the resource group followed by "_eg": two runs of the same command line *)
(* submit the same names, whatever the suffix, the outputs of the          *)
(* deployment and the point where the earlier run ended.                   *)
(***************************************************************************)
C9_IdempotentNaming ==
    /\ \A r \in submitted :
         /\ r.template = "rg.bicep" => r.name = argv.resource_group
         /\ r.template = "rg_add_eventgrid.bicep" => r.name = argv.resource_group \o "_eg"
    /\ \A r1, r2 \in submitted : r1.template = r2.template => r1.name = r2.name

C9_Witness ==
    /\ argv.suffix.some
    /\ Len(argv.suffix.v) > 0
    /\ \A n \in 1..2 : \A t \in {"rg.bicep", "rg_add_eventgrid.bicep"} :
         \E r \in submitted : r.run = n /\ r.template = t

\* The command line is one main() accepts.
ValidArgv == ChoiceAccepted(argv) /\ ~(Truthy(argv.suffix) /\ Len(argv.suffix.v) > 14)

\* No collaborator call of this run has failed, and the outputs were complete.
AllSucceeded ==
    /\ \A i \in 1..Len(log) : log[i].result = "ok"
    /\ HasCall("outputs") => OutputKeySet \subseteq DOMAIN outputs

(***************************************************************************)
(* C10: over runs of the same command line that halt anywhere and roll     *)
(* nothing back, the deployment service holds at most one deployment per   *)
(* name, and only the names <resource_group> and <resource_group>_eg; and  *)
(* a run of an accepted command line in which every collaborator succeeds  *)
(* never halts with an error and can always take its next step until it is *)
(* done, whatever the earlier runs left behind.                            *)
(***************************************************************************)
C10_SafeRerun ==
    /\ \A d1, d2 \in deployments :
         (d1.name = d2.name /\ d1.resource_group = d2.resource_group) => d1 = d2
    /\ \A d \in deployments :
         /\ d.resource_group = argv.resource_group
         /\ d.name \in {argv.resource_group, argv.resource_group \o "_eg"}
    /\ (ValidArgv /\ AllSucceeded) =>
         /\ pc # "raised"
         /\ pc # "done" => ENABLED Step

C10_Witness ==
    /\ run = 2
    /\ pc = "done"
    /\ \E r \in submitted : r.run = 1 /\ r.template = "rg.bicep"
    /\ ~\E r \in submitted : r.run = 1 /\ r.template = "rg_add_eventgrid.bicep"
    /\ Cardinality(deployments) = 2

(***************************************************************************)
(* What the command line asks for, read from argv alone.                   *)
(***************************************************************************)
WantedLocation == IF argv.location.some THEN argv.location.v ELSE "eastus"

WantedUploadDirectory ==
    IF argv.upload_directory.some THEN argv.upload_directory.v ELSE "upload"

WantedRepoType == IF argv.repo_type.some THEN argv.repo_type.v ELSE "distribution"

\* A suffix was supplied and is not the empty string.
SuffixSupplied == argv.suffix.some /\ argv.suffix.v # ""

\* The keys a parameter set built on `keys` has, with the suffix when supplied.
WantedKeys(keys) == keys \cup (IF SuffixSupplied THEN {"suffix"} ELSE {})

\* p has exactly the keys built on `keys`, each with the value asked for.
WantedParameters(p, keys) ==
    /\ DOMAIN p = WantedKeys(keys)
    /\ "use_shared_keys" \in keys => p["use_shared_keys"] = FALSE
    /\ "repo_type" \in keys => p["repo_type"] = WantedRepoType
    /\ "upload_directory" \in keys => p["upload_directory"] = WantedUploadDirectory
    /\ SuffixSupplied => p["suffix"] = argv.suffix.v

(***************************************************************************)
(* C11: a run of an accepted command line whose collaborators all succeed  *)
(* does not halt before it is done, and when it is done it has made the    *)
(* six stage calls, each once and successfully, with these arguments:      *)
(* create_rg(resource_group, location); the initial deployment named       *)
(* <resource_group> in that resource group with {use_shared_keys: false,   *)
(* repo_type, upload_directory} plus the suffix when one was supplied (a   *)
(* non-empty one); the bundle named by the function_app_name output with   *)
(* the storage_account and python_container outputs and {repo_type,        *)
(* upload_directory} plus the suffix; the trigger wait; the event-routing  *)
(* deployment named <resource_group>_eg; and one advisory carrying the     *)
(* upload path and the package_container, storage_account,                 *)
(* function_app_name and base_url outputs of this run.                     *)
(***************************************************************************)
C11_EndToEnd ==
    /\ (ValidArgv /\ AllSucceeded) => pc # "raised"
    /\ pc = "done" =>
        /\ [i \in 1..Len(StageCalls) |-> StageName(StageCalls[i].op)] = StageOrder
        /\ \A i \in 1..Len(StageCalls) : StageCalls[i].result = "ok"
        /\ [name |-> argv.resource_group, location |-> WantedLocation] \in resource_groups
        /\ initial_resources.deployment_name = argv.resource_group
        /\ initial_resources.resource_group_name = argv.resource_group
        /\ initial_resources.template_file = "rg.bicep"
        /\ WantedParameters(initial_resources.parameters,
                            {"use_shared_keys", "repo_type", "upload_directory"})
        /\ funcapp.name = outputs["function_app_name"]
        /\ funcapp.resource_group = argv.resource_group
        /\ funcapp.storage_account = outputs["storage_account"]
        /\ funcapp.python_container = outputs["python_container"]
        /\ WantedParameters(funcapp.parameters, {"repo_type", "upload_directory"})
        /\ event_grid_deployment.deployment_name = argv.resource_group \o "_eg"
        /\ event_grid_deployment.resource_group_name = argv.resource_group
        /\ event_grid_deployment.template_file = "rg_add_eventgrid.bicep"
        /\ \A t \in {"rg.bicep", "rg_add_eventgrid.bicep"} :
             \E d \in deployments :
                /\ d.run = run /\ d.template = t /\ d.state = "Succeeded"
                /\ d.resource_group = argv.resource_group
                /\ d.name = IF t = "rg.bicep" THEN argv.resource_group
                            ELSE argv.resource_group \o "_eg"
        /\ Len(advice) = 1
        /\ advice[1].arguments =
             <<WantedUploadDirectory, outputs["package_container"],
               outputs["storage_account"], outputs["function_app_name"],
               outputs["base_url"]>>

C11_Witness ==
    /\ pc = "done"
    /\ argv.resource_group = "repo1"
    /\ argv.location = None
    /\ argv.suffix = Some("aaaa")
    /\ argv.repo_type = Some("distribution")
    /\ argv.upload_directory = None
    /\ initial_resources.parameters["suffix"] = "aaaa"
    /\ advice[1].function = "advice_distribution_repo"

\* The keys of the initial and bundle parameter sets that are not common.
StageOnlyKeys == {"use_shared_keys", "repo_type", "upload_directory"}

\* The parameter set of the event-routing deployment holds the common overrides only.
OnlyCommonOverrides ==
    /\ event_grid_deployment # None =>
          /\ DOMAIN event_grid_deployment.parameters =
                 (IF SuffixSupplied THEN {"suffix"} ELSE {})
          /\ DOMAIN event_grid_deployment.parameters \cap StageOnlyKeys = {}
          /\ event_grid_deployment.parameters = common_parameters
    /\ \A d \in deployments :
          d.template = "rg_add_eventgrid.bicep" =>
              DOMAIN d.parameters \cap StageOnlyKeys = {}
    /\ initial_resources # None =>
          /\ initial_resources.parameters = initial_parameters
          /\ DOMAIN common_parameters \cap StageOnlyKeys = {}
    /\ funcapp # None =>
          /\ funcapp.parameters = funcapp_parameters
          /\ DOMAIN common_parameters \cap StageOnlyKeys = {}

\* Within a run, a parameter set that has been handed to a stage stays as it is.
HandedOverStaysPut ==
    run' = run =>
        /\ initial_resources # None =>
              /\ initial_resources' = initial_resources
              /\ initial_parameters' = initial_parameters
              /\ common_parameters' = common_parameters
        /\ funcapp # None =>
              /\ funcapp' = funcapp
              /\ funcapp_parameters' = funcapp_parameters
        /\ event_grid_deployment # None =>
              event_grid_deployment' = event_grid_deployment

(***************************************************************************)
(* C12: the parameter set handed to the event-routing deployment holds     *)
(* only the common overrides (the key 'suffix' when a non-empty suffix was *)
(* supplied, else no key) and never use_shared_keys, repo_type or          *)
(* upload_directory; merging the common set into the initial and bundle    *)
(* sets leaves the common set as it was; and no parameter set changes once *)
(* it has been handed to a stage.                                          *)
(***************************************************************************)
C12_NoParameterLeakage == [](OnlyCommonOverrides) /\ [][HandedOverStaysPut]_vars

C12_Witness ==
    /\ pc = "done"
    /\ SuffixSupplied
    /\ DOMAIN event_grid_deployment.parameters = {"suffix"}
    /\ "use_shared_keys" \in DOMAIN initial_resources.parameters
    /\ "repo_type" \in DOMAIN funcapp.parameters

(***************************************************************************)
(* C13: a run prints an advisory only after the event-routing deployment   *)
(* has succeeded, prints exactly one, and it is the one of the configured  *)
(* mode (advice_distribution_repo for distribution, advice_flat_repo for   *)
(* flat); a run that halts prints none.                                    *)
(***************************************************************************)
C13_AdvisorySelection ==
    /\ Len(advice) <= 1
    /\ advice # <<>> =>
          /\ pc = "done"
          /\ Returned("event_grid_create")
          /\ log[Len(log) - 1].op = "event_grid_create"
          /\ advice[1].function =
                 (IF WantedRepoType = "distribution" THEN "advice_distribution_repo"
                  ELSE "advice_flat_repo")
          /\ WantedRepoType \in {"distribution", "flat"}
    /\ pc = "done" => Len(advice) = 1
    /\ pc = "raised" => advice = <<>>

C13_Witness ==
    /\ pc = "done"
    /\ argv.repo_type = Some("flat")
    /\ Len(advice) = 1
    /\ advice[1].function = "advice_flat_repo"

\* The operator interrupted deploy() or wait_for_event_trigger().
Interrupted ==
    \E i \in 1..Len(log) :
        /\ log[i].op \in {"deploy", "wait_for_event_trigger"}
        /\ log[i].result = "KeyboardInterrupt"

(***************************************************************************)
(* C14: when the operator interrupts the run during deploy() or during     *)
(* wait_for_event_trigger(), the acquired bundle session is still          *)
(* released, exactly once, before KeyboardInterrupt leaves main(), and the *)
(* event-routing deployment is neither constructed nor submitted.          *)
(***************************************************************************)
C14_CancellationSafety ==
    Interrupted =>
        /\ acquired = 1
        /\ released <= 1
        /\ pc \in {"exit", "raised"}
        /\ pc = "exit" => released = 0 /\ exc = "KeyboardInterrupt"
        /\ pc = "raised" =>
              /\ released = 1
              /\ err = "KeyboardInterrupt"
              /\ log[Len(log)].op = "exit"
        /\ event_grid_deployment = None
        /\ ~HasCall("event_grid_create")
        /\ \A r \in submitted :
              r.run = run => r.template # "rg_add_eventgrid.bicep"

C14_Witness ==
    /\ pc = "raised"
    /\ err = "KeyboardInterrupt"
    /\ Failed("wait_for_event_trigger")
    /\ Returned("deploy")
    /\ released = 1

\* The position of the call of op in the log of this run (0: not called).
CallIndex(op) ==
    IF HasCall(op) THEN CHOOSE i \in 1..Len(log) : log[i].op = op ELSE 0

(***************************************************************************)
(* C16: extract_requirements is called after create_rg has returned and    *)
(* before the initial deployment is constructed or submitted, outside the  *)
(* bundle session; when it fails the run halts with the resource group     *)
(* created, no deployment submitted in this run, no bundle session         *)
(* acquired and nothing released.                                          *)
(***************************************************************************)
C16_ExtractionPlacement ==
    /\ HasCall("extract_requirements") =>
          /\ CallIndex("create_rg") = 1
          /\ log[1].result = "ok"
          /\ CallIndex("extract_requirements") = 2
          /\ [name |-> argv.resource_group, location |-> WantedLocation]
                 \in resource_groups
    /\ (HasCall("initial_create") \/ initial_resources # None \/ HasCall("enter")) =>
          Returned("extract_requirements")
    /\ pc = "extract_requirements" =>
          /\ acquired = 0
          /\ initial_resources = None
          /\ \A r \in submitted : r.run # run
    /\ Failed("extract_requirements") =>
          /\ pc = "raised"
          /\ err = "ManifestError"
          /\ Len(log) = 2
          /\ initial_resources = None
          /\ funcapp = None
          /\ \A r \in submitted : r.run # run
          /\ \A d \in deployments : d.run # run
          /\ acquired = 0
          /\ released = 0

C16_Witness ==
    /\ Failed("extract_requirements")
    /\ pc = "raised"
    /\ run = 1
    /\ resource_groups # {}
    /\ deployments = {}

(***************************************************************************)
(* C17: main() never makes up a suffix: each of the parameter sets of the  *)
(* initial deployment, the bundle stage and the event-routing deployment   *)
(* has the key 'suffix' if and only if the user supplied a non-empty       *)
(* suffix; with the suffix absent or empty none of the three has it.       *)
(***************************************************************************)
C17_SuffixOnlyWhenSupplied ==
    /\ \A p \in StageParameters : ("suffix" \in DOMAIN p) <=> SuffixSupplied
    /\ common_parameters # None =>
          (("suffix" \in DOMAIN common_parameters) <=> SuffixSupplied)
    /\ \A d \in deployments : ("suffix" \in DOMAIN d.parameters) <=> SuffixSupplied

C17_Witness ==
    /\ pc = "done"
    /\ argv.suffix = None
    /\ Cardinality(StageParameters) = 3
    /\ \A p \in StageParameters : "suffix" \notin DOMAIN p

(***************************************************************************)
(* C18: in every state the releases of the bundle session are at most the  *)
(* acquisitions, and a run acquires at most once; when __enter__ raises,   *)
(* the body (deploy, wait_for_event_trigger) is not run, nothing is        *)
(* released and the event-routing deployment is not attempted.             *)
(***************************************************************************)
C18_AcquireReleasePairing ==
    /\ released <= acquired
    /\ acquired <= 1
    /\ acquired = 1 <=> Returned("enter")
    /\ released = 1 <=> HasCall("exit")
    /\ Failed("enter") =>
          /\ pc = "raised"
          /\ err = "BundleDeployError"
          /\ acquired = 0
          /\ released = 0
          /\ ~HasCall("deploy")
          /\ ~HasCall("wait_for_event_trigger")
          /\ ~HasCall("exit")
          /\ ~HasCall("event_grid_create")
          /\ event_grid_deployment = None

C18_Witness ==
    /\ Failed("enter")
    /\ pc = "raised"
    /\ funcapp # None
    /\ released = 0

\* main() has returned or an exception has left it.
Ended == pc \in {"done", "raised"}

(***************************************************************************)
(* C15: the trigger wait gives up after a bounded number of polls, so      *)
(* every run whose collaborator calls come back ends, done or halted with  *)
(* an error: no run stays in the trigger wait for ever, the wait never     *)
(* makes more polls than its bound, and a run that ends by the timeout has *)
(* released the bundle session it acquired.                                *)
(***************************************************************************)
C15_Termination ==
    /\ (~Ended) ~> Ended
    /\ (pc = "wait") ~> (pc # "wait")
    /\ [](polls < MaxPolls)
    /\ [](pc = "raised" /\ err = "TriggerTimeoutError" =>
             acquired = 1 /\ released = 1 /\ polls = MaxPolls - 1)

C15_Witness ==
    /\ pc = "raised"
    /\ err = "TriggerTimeoutError"
    /\ polls = MaxPolls - 1
    /\ released = 1

====
